---- MODULE Spec2Model ----
(***************************************************************************)
(* Space Engineers Lift Calculator: the performance model (models.py),     *)
(* the advisory scorer and the LLM boundary (ai_assistant.py), the exports *)
(* (utils.py) and the Results panel (main.py).                             *)
(*                                                                         *)
(* Python floats are modelled as exact rationals [n, d] in lowest terms    *)
(* (d > 0); a float division by zero raises ZeroDivisionError, as in       *)
(* Python.  A call's outcome is a tagged record: [tag |-> "ok", val |-> v] *)
(* when it returns v, [tag |-> "raise", exc |-> e] when it raises e.       *)
(*                                                                         *)
(* Spec applies each function once to a configuration.  SpecApp runs one   *)
(* session of the application (widgets, buttons, st.session_state);        *)
(* SpecSessions runs two sessions side by side on the presets.             *)
(***************************************************************************)
EXTENDS Integers, Sequences, FiniteSets, TLC

VARIABLES
    input,     \* the arguments of the call under analysis
    op,        \* the function that was called ("none" before the call)
    ret,       \* the outcome of the call
    external,  \* the request the call made to the completion service and
               \* what came back (None when it made no request)
    widgets,        \* per session: the values the input widgets hold
    session_state,  \* per session: st.session_state
    view,           \* per session: what the last run of main computed
    last,           \* the interaction that triggered the last run
    latest          \* per session: name -> the specifications of the most
                    \* recent save under that name (history)

callVars == <<input, op, ret, external>>
appVars == <<widgets, session_state, view, last, latest>>
vars == <<input, op, ret, external, widgets, session_state, view, last, latest>>

(***************************************************************************)
(* Bounds of the model.                                                    *)
(***************************************************************************)
\* total number of thruster blocks of a configuration
MaxThrusters == 2
\* length of the text the completion service returns
MaxTextLen == 7
\* length of a preset name
MaxNameLen == 2
\* number of presets handed to the comparison charts
MaxPresets == 2

(***************************************************************************)
(* Rational arithmetic (the model of Python float arithmetic).             *)
(***************************************************************************)
Abs(x) == IF x < 0 THEN -x ELSE x

RECURSIVE Gcd(_, _)
Gcd(a, b) == IF b = 0 THEN a ELSE Gcd(b, a % b)

Rat(n, d) ==
    LET g == Gcd(Abs(n), Abs(d))
        s == IF d < 0 THEN -1 ELSE 1
    IN  [n |-> s * (n \div g), d |-> s * (d \div g)]

I(k) == [n |-> k, d |-> 1]

RAdd(a, b) == Rat(a.n * b.d + b.n * a.d, a.d * b.d)
RSub(a, b) == Rat(a.n * b.d - b.n * a.d, a.d * b.d)
RMul(a, b) ==
    LET a1 == Rat(a.n, b.d)
        b1 == Rat(b.n, a.d)
    IN  Rat(a1.n * b1.n, a1.d * b1.d)
RLt(a, b) == a.n * b.d < b.n * a.d
RLe(a, b) == a.n * b.d <= b.n * a.d
RAbs(a) == [n |-> Abs(a.n), d |-> a.d]
RMin(a, b) == IF RLt(b, a) THEN b ELSE a
RMax(a, b) == IF RLt(a, b) THEN b ELSE a

Ok(v) == [tag |-> "ok", val |-> v]
Raise(e) == [tag |-> "raise", exc |-> e]
ZeroDivisionError == "float division by zero"

\* Python's a / b on floats: raises when b is zero
RDiv(a, b) ==
    IF b.n = 0 THEN Raise(ZeroDivisionError)
    ELSE Ok(RMul(a, Rat(b.d, b.n)))

(***************************************************************************)
(* models.py                                                               *)
(***************************************************************************)
THRUSTER_SPECS ==
    [atmospheric |-> [small |-> 82000, large |-> 408000],
     ion         |-> [small |-> 14400, large |-> 172800],
     hydrogen    |-> [small |-> 98400, large |-> 478800]]

ThrusterCount(small, large) == [small |-> small, large |-> large]

GridSpecifications(mass, gravity, atmospheric, ion, hydrogen) ==
    [mass |-> mass, gravity |-> gravity,
     atmospheric_thrusters |-> atmospheric,
     ion_thrusters |-> ion,
     hydrogen_thrusters |-> hydrogen]

calculate_thrust_swapped(tc, thrust_type) ==
    (tc.small * THRUSTER_SPECS[thrust_type].large)
        + (tc.large * THRUSTER_SPECS[thrust_type].small)

calculate_thrust(tc, thrust_type) ==
    (tc.small * THRUSTER_SPECS[thrust_type].small)
        + (tc.large * THRUSTER_SPECS[thrust_type].large)

calculate_thrust_by_type(specs) ==
    [atmospheric |-> calculate_thrust(specs.atmospheric_thrusters, "atmospheric"),
     ion         |-> calculate_thrust(specs.ion_thrusters, "ion"),
     hydrogen    |-> calculate_thrust(specs.hydrogen_thrusters, "hydrogen")]

calculate_total_thrust(specs) ==
    LET thrusts == calculate_thrust_by_type(specs)
    IN  thrusts.atmospheric + thrusts.ion + thrusts.hydrogen

\* the zero-gravity guard the code does not have
calculate_lift_capacity_guarded(specs) ==
    IF specs.gravity.n = 0 THEN Ok(I(0))
    ELSE RDiv(RSub(I(calculate_total_thrust(specs)),
                   RMul(specs.mass, specs.gravity)),
              specs.gravity)

calculate_lift_capacity(specs) ==
    LET total_thrust == calculate_total_thrust(specs)
    IN  RDiv(RSub(I(total_thrust), RMul(specs.mass, specs.gravity)),
             specs.gravity)

(***************************************************************************)
(* Python strings.  A string is a sequence of characters; a fixed message  *)
(* of the program is kept as one element.                                  *)
(***************************************************************************)
Digit(k) == <<"0", "1", "2", "3", "4", "5", "6", "7", "8", "9">>[k + 1]

RECURSIVE IntDigits(_)
IntDigits(q) ==
    IF q < 10 THEN <<Digit(q)>>
    ELSE IntDigits(q \div 10) \o <<Digit(q % 10)>>

\* the "," option of the format mini-language: groups of three from the right
RECURSIVE Grouped(_)
Grouped(ds) ==
    IF Len(ds) <= 3 THEN ds
    ELSE Grouped(SubSeq(ds, 1, Len(ds) - 3)) \o <<",">>
             \o SubSeq(ds, Len(ds) - 2, Len(ds))

\* |r| in hundredths, rounded half to even
Hundredths(r) ==
    LET n    == Abs(r.n)
        q    == n \div r.d
        rem  == n % r.d
        c    == (rem * 100) \div r.d
        rem2 == (rem * 100) % r.d
        up   == 2 * rem2 > r.d \/ (2 * rem2 = r.d /\ c % 2 = 1)
    IN  q * 100 + c + (IF up THEN 1 ELSE 0)

\* f"{r:.2f}" (grouping = FALSE) and f"{r:,.2f}" (grouping = TRUE)
FormatFixed2(r, grouping) ==
    LET h    == Hundredths(r)
        ip   == IntDigits(h \div 100)
        sign == IF r.n < 0 THEN <<"-">> ELSE <<>>
    IN  sign \o (IF grouping THEN Grouped(ip) ELSE ip)
             \o <<".", Digit((h % 100) \div 10), Digit(h % 10)>>

format_number(number) == FormatFixed2(number, TRUE)

\* str.find(sep, i) for sep = "\n\n", 1-based; 0 when there is none
RECURSIVE FindBlankLine(_, _)
FindBlankLine(text, i) ==
    IF i + 1 > Len(text) THEN 0
    ELSE IF text[i] = "\n" /\ text[i + 1] = "\n" THEN i
    ELSE FindBlankLine(text, i + 1)

\* text.split("\n\n")
RECURSIVE SplitBlankLines(_)
SplitBlankLines(text) ==
    LET j == FindBlankLine(text, 1)
    IN  IF j = 0 THEN <<text>>
        ELSE <<SubSeq(text, 1, j - 1)>>
                 \o SplitBlankLines(SubSeq(text, j + 2, Len(text)))

(***************************************************************************)
(* Python values as json sees them: tagged by their type.  A dict is the   *)
(* sequence of its <<key, value>> pairs, in insertion order.               *)
(***************************************************************************)
PyFloat(r) == [py |-> "float", v |-> r]
PyInt(k) == [py |-> "int", v |-> k]
PyStr(s) == [py |-> "str", v |-> s]
PyDict(pairs) == [py |-> "dict", v |-> pairs]

\* d[key]
Get(pairs, key) ==
    pairs[CHOOSE i \in 1..Len(pairs) : pairs[i][1] = <<key>>][2]

\* float.__repr__ of a non-negative float with a short decimal expansion
RECURSIVE FracDigits(_, _)
FracDigits(rem, d) ==
    IF rem = 0 THEN <<>>
    ELSE <<Digit((rem * 10) \div d)>> \o FracDigits((rem * 10) % d, d)

FloatRepr(r) ==
    IntDigits(r.n \div r.d) \o <<".">>
        \o (IF r.n % r.d = 0 THEN <<"0">> ELSE FracDigits(r.n % r.d, r.d))

DigitValue(c) == CHOOSE k \in 0..9 : Digit(k) = c

RECURSIVE DigitsValue(_)
DigitsValue(ds) ==
    IF Len(ds) = 0 THEN 0
    ELSE 10 * DigitsValue(SubSeq(ds, 1, Len(ds) - 1)) + DigitValue(ds[Len(ds)])

RECURSIVE Pow10(_)
Pow10(k) == IF k = 0 THEN 1 ELSE 10 * Pow10(k - 1)

\* the number a JSON number literal denotes: a float when it has a ".",
\* an int otherwise
ParseNumber(ds) ==
    IF \E i \in 1..Len(ds) : ds[i] = "."
    THEN LET dot == CHOOSE i \in 1..Len(ds) : ds[i] = "."
             ip  == SubSeq(ds, 1, dot - 1)
             fp  == SubSeq(ds, dot + 1, Len(ds))
         IN  PyFloat(Rat(DigitsValue(ip) * Pow10(Len(fp)) + DigitsValue(fp),
                         Pow10(Len(fp))))
    ELSE PyInt(DigitsValue(ds))

\* the body of a JSON string literal: quotes and backslashes escaped
RECURSIVE Escape(_)
Escape(s) ==
    IF Len(s) = 0 THEN <<>>
    ELSE (IF Head(s) \in {"\"", "\\"} THEN <<"\\", Head(s)>> ELSE <<Head(s)>>)
             \o Escape(Tail(s))

RECURSIVE Unescape(_)
Unescape(s) ==
    IF Len(s) = 0 THEN <<>>
    ELSE IF Head(s) = "\\" THEN <<s[2]>> \o Unescape(SubSeq(s, 3, Len(s)))
    ELSE <<Head(s)>> \o Unescape(Tail(s))

\* JSON text is a sequence of tokens: punctuation, string literals and
\* number literals with their characters
Punct(c) == [t |-> c]
StrLit(body) == [t |-> "str", body |-> body]
NumLit(body) == [t |-> "num", body |-> body]

\* json.dumps
RECURSIVE Dumps(_)
RECURSIVE DumpsPairs(_)
DumpsPairs(pairs) ==
    IF Len(pairs) = 0 THEN <<>>
    ELSE <<StrLit(Escape(pairs[1][1])), Punct(":")>> \o Dumps(pairs[1][2])
             \o (IF Len(pairs) > 1 THEN <<Punct(",")>> ELSE <<>>)
             \o DumpsPairs(Tail(pairs))
Dumps(value) ==
    CASE value.py = "float" -> <<NumLit(FloatRepr(value.v))>>
      [] value.py = "int"   -> <<NumLit(IntDigits(value.v))>>
      [] value.py = "str"   -> <<StrLit(Escape(value.v))>>
      [] value.py = "dict"  ->
            <<Punct("{")>> \o DumpsPairs(value.v) \o <<Punct("}")>>

\* json.loads: the value at the head of the tokens and the tokens left
RECURSIVE ParseValue(_)
RECURSIVE ParseMembers(_, _)
ParseMembers(toks, acc) ==
    IF Head(toks).t = "}" THEN [val |-> PyDict(acc), rest |-> Tail(toks)]
    ELSE IF Head(toks).t = "," THEN ParseMembers(Tail(toks), acc)
    ELSE LET key    == Unescape(Head(toks).body)
             member == ParseValue(SubSeq(toks, 3, Len(toks)))
         IN  ParseMembers(member.rest, Append(acc, <<key, member.val>>))
ParseValue(toks) ==
    CASE Head(toks).t = "num" ->
            [val |-> ParseNumber(Head(toks).body), rest |-> Tail(toks)]
      [] Head(toks).t = "str" ->
            [val |-> PyStr(Unescape(Head(toks).body)), rest |-> Tail(toks)]
      [] Head(toks).t = "{"   -> ParseMembers(Tail(toks), <<>>)

Loads(text) == ParseValue(text).val

(***************************************************************************)
(* models.py: serialization                                                *)
(***************************************************************************)
ThrusterCount_to_dict(tc) ==
    <<<<<<"small">>, PyInt(tc.small)>>, <<<<"large">>, PyInt(tc.large)>>>>

ThrusterCount_from_dict(data) ==
    ThrusterCount(Get(data, "small").v, Get(data, "large").v)

GridSpecifications_to_dict(specs) ==
    <<<<<<"mass">>, PyFloat(specs.mass)>>,
      <<<<"gravity">>, PyFloat(specs.gravity)>>,
      <<<<"atmospheric_thrusters">>,
        PyDict(ThrusterCount_to_dict(specs.atmospheric_thrusters))>>,
      <<<<"ion_thrusters">>,
        PyDict(ThrusterCount_to_dict(specs.ion_thrusters))>>,
      <<<<"hydrogen_thrusters">>,
        PyDict(ThrusterCount_to_dict(specs.hydrogen_thrusters))>>>>

\* a from_dict that leaves gravity to the default of the dataclass
GridSpecifications_from_dict_default_gravity(data) ==
    GridSpecifications(
        Get(data, "mass").v,
        Rat(981, 100),
        ThrusterCount_from_dict(Get(data, "atmospheric_thrusters").v),
        ThrusterCount_from_dict(Get(data, "ion_thrusters").v),
        ThrusterCount_from_dict(Get(data, "hydrogen_thrusters").v))

GridSpecifications_from_dict(data) ==
    GridSpecifications(
        Get(data, "mass").v,
        Get(data, "gravity").v,
        ThrusterCount_from_dict(Get(data, "atmospheric_thrusters").v),
        ThrusterCount_from_dict(Get(data, "ion_thrusters").v),
        ThrusterCount_from_dict(Get(data, "hydrogen_thrusters").v))

Preset(name, specifications) ==
    [name |-> name, specifications |-> specifications]

Preset_save(preset) ==
    Dumps(PyDict(<<
        <<<<"name">>, PyStr(preset.name)>>,
        <<<<"specifications">>,
          PyDict(GridSpecifications_to_dict(preset.specifications))>>>>))

Preset_load(data) ==
    LET parsed == Loads(data).v
    IN  Preset(Get(parsed, "name").v,
               GridSpecifications_from_dict(Get(parsed, "specifications").v))

(***************************************************************************)
(* ai_assistant.py                                                         *)
(***************************************************************************)
AnalysisUnavailable == <<"Analysis unavailable">>
NoOptimization == <<"No optimization suggestions">>
NoUseCases == <<"No use case analysis">>
ErrorPrefix == <<"Error analyzing efficiency: ">>

\* the user prompt of analyze_grid: the numbers it embeds, as formatted
Prompt(specs, thrusts, total_thrust, twr, lift_capacity) ==
    [mass           |-> FormatFixed2(specs.mass, TRUE),
     total_thrust   |-> FormatFixed2(I(total_thrust), TRUE),
     twr            |-> FormatFixed2(twr, FALSE),
     atmospheric    |-> FormatFixed2(I(thrusts.atmospheric), TRUE),
     ion            |-> FormatFixed2(I(thrusts.ion), TRUE),
     hydrogen       |-> FormatFixed2(I(thrusts.hydrogen), TRUE),
     lift_capacity  |-> FormatFixed2(lift_capacity, TRUE)]

\* lines 54-62 with every section guarded by "> 1"
ParseAnalysisShifted(analysis) ==
    LET sections == SplitBlankLines(analysis)
    IN  [efficiency   |-> IF Len(sections) > 1 THEN sections[1]
                          ELSE AnalysisUnavailable,
         optimization |-> IF Len(sections) > 2 THEN sections[2]
                          ELSE NoOptimization,
         use_cases    |-> IF Len(sections) > 3 THEN sections[3]
                          ELSE NoUseCases]

\* lines 54-62: the sections of the returned text, by position
ParseAnalysis(analysis) ==
    LET sections == SplitBlankLines(analysis)
    IN  [efficiency   |-> IF Len(sections) > 0 THEN sections[1]
                          ELSE AnalysisUnavailable,
         optimization |-> IF Len(sections) > 1 THEN sections[2]
                          ELSE NoOptimization,
         use_cases    |-> IF Len(sections) > 2 THEN sections[3]
                          ELSE NoUseCases]

\* lines 44-62, the body of the try: what it returns or raises, given what
\* openai.ChatCompletion.create returned or raised
TryBody(completion) ==
    IF completion.tag = "raise" THEN completion
    ELSE IF Len(completion.val.choices) = 0
         THEN Raise("list index out of range")
    ELSE LET content == completion.val.choices[1].message.content
         IN  IF content.type = "NoneType"
             THEN Raise("'NoneType' object has no attribute 'split'")
             ELSE Ok(ParseAnalysis(content.chars))

\* an except clause that embeds the error in every field
ExceptBodyAllFields(e) ==
    [efficiency   |-> ErrorPrefix \o <<e>>,
     optimization |-> ErrorPrefix \o <<e>>,
     use_cases    |-> ErrorPrefix \o <<e>>]

\* lines 64-69
ExceptBody(e) ==
    [efficiency   |-> ErrorPrefix \o <<e>>,
     optimization |-> AnalysisUnavailable,
     use_cases    |-> AnalysisUnavailable]

\* lines 23-26: what analyze_grid computes before the try; a raise here is
\* not caught
AnalyzePrelude(specs) ==
    LET total_thrust  == calculate_total_thrust(specs)
        lift_capacity == calculate_lift_capacity(specs)
        twr == IF specs.mass.n > 0
               THEN RDiv(I(total_thrust), RMul(specs.mass, specs.gravity))
               ELSE Ok(I(0))
    IN  IF lift_capacity.tag = "raise" THEN lift_capacity
        ELSE IF twr.tag = "raise" THEN twr
        ELSE Ok(Prompt(specs, calculate_thrust_by_type(specs), total_thrust,
                       twr.val, lift_capacity.val))

\* analyze_grid, given the outcome of the completion call (which is made
\* only when the prelude did not raise)
analyze_grid(specs, completion) ==
    LET prelude == AnalyzePrelude(specs)
        body    == TryBody(completion)
    IN  IF prelude.tag = "raise" THEN prelude
        ELSE IF body.tag = "raise" THEN Ok(ExceptBody(body.exc))
        ELSE body

NoThrusters == <<"No thrusters configured">>
AtmosphericHeavy ==
    <<"Heavy atmospheric focus - consider diversifying for space operations">>
IonHeavy == <<"Heavy ion focus - may struggle in atmosphere">>
HydrogenHeavy == <<"Heavy hydrogen focus - check fuel efficiency">>
Balanced == <<"Balanced thrust distribution">>

\* the verdict with ">=" for ">"
analyze_thrust_balance_inclusive(distribution) ==
    IF distribution.atmospheric.n = 0 /\ distribution.ion.n = 0
           /\ distribution.hydrogen.n = 0
    THEN NoThrusters
    ELSE IF RLe(I(60), distribution.atmospheric) THEN AtmosphericHeavy
    ELSE IF RLe(I(60), distribution.ion) THEN IonHeavy
    ELSE IF RLe(I(60), distribution.hydrogen) THEN HydrogenHeavy
    ELSE Balanced

\* _analyze_thrust_balance
analyze_thrust_balance(distribution) ==
    IF distribution.atmospheric.n = 0 /\ distribution.ion.n = 0
           /\ distribution.hydrogen.n = 0
    THEN NoThrusters
    ELSE IF RLt(I(60), distribution.atmospheric) THEN AtmosphericHeavy
    ELSE IF RLt(I(60), distribution.ion) THEN IonHeavy
    ELSE IF RLt(I(60), distribution.hydrogen) THEN HydrogenHeavy
    ELSE Balanced

\* _calculate_efficiency_score
\* _calculate_efficiency_score mutated: the base score is not capped at 100
calculate_efficiency_score_uncapped_base(specs) ==
    LET total_thrust == calculate_total_thrust(specs)
        twr == RDiv(I(total_thrust), RMul(specs.mass, specs.gravity))
        thrusts == calculate_thrust_by_type(specs)
        ideal_thrust == Rat(total_thrust, 3)
        deviation(t) == RAbs(RSub(I(t), ideal_thrust))
        distribution_penalty ==
            RMul(RMul(RAdd(RAdd(deviation(thrusts.atmospheric),
                                deviation(thrusts.ion)),
                           deviation(thrusts.hydrogen)),
                      Rat(1, total_thrust)),
                 I(20))
        base_score == RMax(I(0), RMul(twr.val, I(20)))
    IN  IF total_thrust = 0 \/ specs.mass.n = 0 THEN Ok(I(0))
        ELSE IF twr.tag = "raise" THEN twr
        ELSE Ok(RMax(I(0), RMin(I(100), RSub(base_score, distribution_penalty))))

calculate_efficiency_score(specs) ==
    LET total_thrust == calculate_total_thrust(specs)
        twr == RDiv(I(total_thrust), RMul(specs.mass, specs.gravity))
        thrusts == calculate_thrust_by_type(specs)
        ideal_thrust == Rat(total_thrust, 3)
        deviation(t) == RAbs(RSub(I(t), ideal_thrust))
        distribution_penalty ==
            IF total_thrust > 0
            THEN RMul(RMul(RAdd(RAdd(deviation(thrusts.atmospheric),
                                     deviation(thrusts.ion)),
                                deviation(thrusts.hydrogen)),
                           Rat(1, total_thrust)),
                      I(20))
            ELSE I(100)
        base_score == RMin(I(100), RMax(I(0), RMul(twr.val, I(20))))
    IN  IF total_thrust = 0 \/ specs.mass.n = 0 THEN Ok(I(0))
        ELSE IF twr.tag = "raise" THEN twr
        ELSE Ok(RMax(I(0), RMin(I(100), RSub(base_score, distribution_penalty))))

AddThrusters == <<"Add thrusters to begin analysis">>
AddMassAndThrusters ==
    <<"Add mass and thrusters to calculate thrust-to-weight ratio">>
AddMoreThrusters == <<"Add more thrusters to improve lift capacity">>
ReduceThrust == <<"Consider reducing thrust for better efficiency">>
IncreaseAtmospheric ==
    <<"Increase atmospheric thrusters for better planet performance">>
IncreaseSpace == <<"Increase ion/hydrogen thrusters for space operations">>

\* the advisories made mutually exclusive (an elif chain)
SuggestionsForExclusive(specs, twr) ==
    LET thrusts == calculate_thrust_by_type(specs)
        hover   == RMul(specs.mass, specs.gravity)
    IN  IF twr.n = 0 THEN <<AddMassAndThrusters>>
        ELSE IF RLt(twr, Rat(3, 2)) THEN <<AddMoreThrusters>>
        ELSE IF RLt(I(4), twr) THEN <<ReduceThrust>>
        ELSE IF specs.mass.n > 0 /\ RLt(I(thrusts.atmospheric), hover)
        THEN <<IncreaseAtmospheric>>
        ELSE IF specs.mass.n > 0
                    /\ RLt(I(thrusts.ion + thrusts.hydrogen), hover)
        THEN <<IncreaseSpace>>
        ELSE <<>>

\* lines 144-161 of _generate_suggested_changes, given twr
SuggestionsFor(specs, twr) ==
    LET thrusts == calculate_thrust_by_type(specs)
        hover   == RMul(specs.mass, specs.gravity)
        first   == IF twr.n = 0 THEN <<AddMassAndThrusters>>
                   ELSE IF RLt(twr, Rat(3, 2)) THEN <<AddMoreThrusters>>
                   ELSE IF RLt(I(4), twr) THEN <<ReduceThrust>>
                   ELSE <<>>
        atmo    == IF specs.mass.n > 0 /\ RLt(I(thrusts.atmospheric), hover)
                   THEN <<IncreaseAtmospheric>> ELSE <<>>
        space   == IF specs.mass.n > 0
                       /\ RLt(I(thrusts.ion + thrusts.hydrogen), hover)
                   THEN <<IncreaseSpace>> ELSE <<>>
    IN  first \o atmo \o space

\* _generate_suggested_changes
generate_suggested_changes(specs) ==
    LET total_thrust == calculate_total_thrust(specs)
        twr == IF specs.mass.n > 0
               THEN RDiv(I(total_thrust), RMul(specs.mass, specs.gravity))
               ELSE Ok(I(0))
    IN  IF total_thrust = 0 THEN Ok(<<AddThrusters>>)
        ELSE IF twr.tag = "raise" THEN twr
        ELSE Ok(SuggestionsFor(specs, twr.val))

\* lines 85-88 of suggest_improvements
thrust_distribution(specs) ==
    LET thrusts == calculate_thrust_by_type(specs)
        total_thrust == calculate_total_thrust(specs)
        share(v) == IF total_thrust > 0
                    THEN RMul(Rat(v, total_thrust), I(100))
                    ELSE I(0)
    IN  [atmospheric |-> share(thrusts.atmospheric),
         ion         |-> share(thrusts.ion),
         hydrogen    |-> share(thrusts.hydrogen)]

suggest_improvements(specs) ==
    LET total_thrust == calculate_total_thrust(specs)
        score   == calculate_efficiency_score(specs)
        changes == generate_suggested_changes(specs)
    IN  IF total_thrust = 0
        THEN Ok([thrust_balance    |-> NoThrusters,
                 efficiency_score  |-> I(0),
                 suggested_changes |-> <<AddThrusters>>])
        ELSE IF score.tag = "raise" THEN score
        ELSE IF changes.tag = "raise" THEN changes
        ELSE Ok([thrust_balance    |->
                     analyze_thrust_balance(thrust_distribution(specs)),
                 efficiency_score  |-> score.val,
                 suggested_changes |-> changes.val])

(***************************************************************************)
(* utils.py: the exports and the comparison chart; main.py: the Results    *)
(* panel.                                                                  *)
(***************************************************************************)
\* a field as csv.writer writes it: quoted when it holds a delimiter
CsvField(s) ==
    IF \E i \in 1..Len(s) : s[i] = "," THEN <<"\"">> \o s \o <<"\"">> ELSE s

CsvRow(cells) == [i \in 1..Len(cells) |-> CsvField(cells[i])]

\* the formatted values of "Performance Analysis", computed alike by the
\* CSV export (lines 148-157), the PDF report (lines 213-225) and the
\* Results panel (main.py, lines 269-281): they raise where the divisions do
PerformanceValues(specs) ==
    LET thrusts       == calculate_thrust_by_type(specs)
        total_thrust  == calculate_total_thrust(specs)
        lift_capacity == calculate_lift_capacity(specs)
        hover         == RMul(specs.mass, specs.gravity)
        twr           == RDiv(I(total_thrust), hover)
    IN  IF lift_capacity.tag = "raise" THEN lift_capacity
        ELSE IF twr.tag = "raise" THEN twr
        ELSE Ok([total_thrust  |-> format_number(I(total_thrust)),
                 atmospheric   |-> format_number(I(thrusts.atmospheric)),
                 ion           |-> format_number(I(thrusts.ion)),
                 hydrogen      |-> format_number(I(thrusts.hydrogen)),
                 hover         |-> format_number(hover),
                 lift_capacity |-> format_number(lift_capacity.val),
                 twr           |-> format_number(twr.val)])

\* export_grid_to_csv mutated: the total is written after the per-type
\* thrusts
PerformanceRowsTotalAfterTypes(values) ==
    <<<<<<"Atmospheric Thrust (N)">>, values.atmospheric>>,
      <<<<"Ion Thrust (N)">>, values.ion>>,
      <<<<"Hydrogen Thrust (N)">>, values.hydrogen>>,
      <<<<"Total Thrust (N)">>, values.total_thrust>>,
      <<<<"Required Hover Thrust (N)">>, values.hover>>,
      <<<<"Lift Capacity (kg)">>, values.lift_capacity>>,
      <<<<"Thrust-to-Weight Ratio">>, values.twr>>>>

PerformanceRows(values) ==
    <<<<<<"Total Thrust (N)">>, values.total_thrust>>,
      <<<<"Atmospheric Thrust (N)">>, values.atmospheric>>,
      <<<<"Ion Thrust (N)">>, values.ion>>,
      <<<<"Hydrogen Thrust (N)">>, values.hydrogen>>,
      <<<<"Required Hover Thrust (N)">>, values.hover>>,
      <<<<"Lift Capacity (kg)">>, values.lift_capacity>>,
      <<<<"Thrust-to-Weight Ratio">>, values.twr>>>>

ThrusterRows(specs) ==
    <<<<<<"Type">>, <<"Small">>, <<"Large">>>>,
      <<<<"Atmospheric">>, IntDigits(specs.atmospheric_thrusters.small),
        IntDigits(specs.atmospheric_thrusters.large)>>,
      <<<<"Ion">>, IntDigits(specs.ion_thrusters.small),
        IntDigits(specs.ion_thrusters.large)>>,
      <<<<"Hydrogen">>, IntDigits(specs.hydrogen_thrusters.small),
        IntDigits(specs.hydrogen_thrusters.large)>>>>

\* export_grid_to_csv: the rows written, in order ("m/s2" stands for the
\* label's superscript)
export_grid_to_csv(specs) ==
    LET performance == PerformanceValues(specs)
        rows == <<<<<<"Space Engineers Grid Specifications">>>>,
                  <<>>,
                  <<<<"Basic Specifications">>>>,
                  <<<<"Mass (kg)">>, FloatRepr(specs.mass)>>,
                  <<<<"Gravity (m/s2)">>, FloatRepr(specs.gravity)>>,
                  <<>>,
                  <<<<"Thruster Configuration">>>>>>
                    \o ThrusterRows(specs)
                    \o <<<<>>, <<<<"Performance Analysis">>>>>>
                    \o PerformanceRows(performance.val)
    IN  IF performance.tag = "raise" THEN performance
        ELSE Ok([i \in 1..Len(rows) |-> CsvRow(rows[i])])

\* create_pdf_report: the data of the three tables handed to the renderer
create_pdf_report(specs) ==
    LET performance == PerformanceValues(specs)
    IN  IF performance.tag = "raise" THEN performance
        ELSE Ok([basic_data |-> <<<<<<"Mass (kg)">>, format_number(specs.mass)>>,
                                   <<<<"Gravity (m/s2)">>, format_number(specs.gravity)>>>>,
                 thruster_data |-> ThrusterRows(specs),
                 performance_data |-> <<<<<<"Metric">>, <<"Value">>>>>>
                                          \o PerformanceRows(performance.val)])

\* main, lines 262-283: the values the Results panel shows
results_panel(specs) == PerformanceValues(specs)

\* create_metrics_comparison: one trace per preset, or the first raise
RECURSIVE create_metrics_comparison(_)
create_metrics_comparison(presets) ==
    IF Len(presets) = 0 THEN Ok(<<>>)
    ELSE LET name          == presets[1][1]
             specs         == Preset_load(presets[1][2]).specifications
             total_thrust  == calculate_total_thrust(specs)
             lift_capacity == calculate_lift_capacity(specs)
             twr           == RDiv(I(total_thrust), RMul(specs.mass, specs.gravity))
             others        == create_metrics_comparison(Tail(presets))
         IN  IF lift_capacity.tag = "raise" THEN lift_capacity
             ELSE IF twr.tag = "raise" THEN twr
             ELSE IF others.tag = "raise" THEN others
             ELSE Ok(<<[name |-> name,
                        r |-> <<Rat(total_thrust, 10000000),
                                IF lift_capacity.val.n > 0
                                THEN RMul(lift_capacity.val, Rat(1, 1000000))
                                ELSE I(0),
                                RMin(RMul(twr.val, Rat(1, 10)), I(1))>>]>>
                         \o others.val)

(***************************************************************************)
(* The configurations the calls are applied to.                            *)
(***************************************************************************)
\* kilograms
Masses == {I(0), I(1000), I(50000)}
\* m/s^2: none, the Moon's 1.62 and the Earth's 9.81
Gravities == {I(0), Rat(162, 100), Rat(981, 100)}

Counts ==
    {c \in [1..6 -> 0..MaxThrusters] :
        c[1] + c[2] + c[3] + c[4] + c[5] + c[6] <= MaxThrusters}

SpecsSet ==
    {GridSpecifications(m, g, ThrusterCount(c[1], c[2]),
                        ThrusterCount(c[3], c[4]), ThrusterCount(c[5], c[6])) :
        m \in Masses, g \in Gravities, c \in Counts}

None == [tag |-> "none"]

\* the percentages _analyze_thrust_balance is tried on
Percentages == {I(0), I(10), I(20), I(33), I(34), I(60), I(61), I(70)}

Distributions == [atmospheric : Percentages, ion : Percentages, hydrogen : Percentages]

\* the text of a completion: letters and newlines
Chars == {"a", "\n"}
Texts == UNION {[1..k -> Chars] : k \in 0..MaxTextLen}

\* what openai.ChatCompletion.create can come back with: an exception, a
\* response without choices, a choice without content, a text
Completions ==
    {Raise(m) : m \in {"Connection error.", "No API key provided."}}
        \cup {Ok([choices |-> <<>>])}
        \cup {Ok([choices |-> <<[message |-> [content |-> [type |-> "NoneType"]]]>>])}
        \cup {Ok([choices |-> <<[message |->
                    [content |-> [type |-> "str", chars |-> x]]]>>]) : x \in Texts}

\* preset names: letters, quotes and backslashes
NameChars == {"a", "\"", "\\"}
Names == UNION {[1..k -> NameChars] : k \in 0..MaxNameLen}

\* the presets the comparison chart is drawn for: session_state.presets, as
\* save_preset fills it (name -> preset.save(), in insertion order)
ChartNames == {<<"a">>, <<"b">>, <<"c">>}
ChartSpecs ==
    {GridSpecifications(m, g, ThrusterCount(k, 0), ThrusterCount(0, 0),
                        ThrusterCount(0, 0)) :
        m \in {I(0), I(1000)}, g \in {I(0), Rat(981, 100)}, k \in {0, 1}}
PresetStores ==
    UNION {{[i \in 1..k |-> <<n[i], Preset_save(Preset(n[i], s[i]))>>] :
                n \in {f \in [1..k -> ChartNames] :
                          \A i, j \in 1..k : i # j => f[i] # f[j]},
                s \in [1..k -> ChartSpecs]} : k \in 1..MaxPresets}

Inputs ==
    {[kind |-> "specs", specs |-> s] : s \in SpecsSet}
        \cup {[kind |-> "presets", presets |-> d] : d \in PresetStores}
        \cup {[kind |-> "distribution", distribution |-> d] : d \in Distributions}
        \cup {[kind |-> "preset", preset |-> Preset(n, s)] :
                    n \in Names, s \in SpecsSet}

(***************************************************************************)
(* The application: main.py run by Streamlit, one session per browser tab. *)
(* Every interaction with a widget runs main from the top with the values  *)
(* the widgets hold; st.session_state is the session's own store and       *)
(* outlives the runs; a button is True only in the run its click started.  *)
(***************************************************************************)
Sessions == {"s1", "s2"}

\* block_specs.py
BLOCK_MASSES ==
    [light_armor_block |-> [small |-> 25, large |-> 1220],
     heavy_armor_block |-> [small |-> 87, large |-> 4170],
     steel_plate       |-> [small |-> 20, large |-> 980],
     interior_plate    |-> [small |-> 3, large |-> 120],
     cargo_container   |-> [small |-> 128, large |-> 2175],
     refinery          |-> [small |-> 2000, large |-> 15400],
     assembler         |-> [small |-> 1000, large |-> 3360],
     reactor           |-> [small |-> 368, large |-> 4860]]

\* the order main.py fills block_counts in
BlockTypes ==
    <<"light_armor_block", "heavy_armor_block", "steel_plate",
      "interior_plate", "cargo_container", "refinery", "assembler", "reactor">>

RECURSIVE TotalMassFrom(_, _)
TotalMassFrom(block_counts, i) ==
    IF i > Len(BlockTypes) THEN 0
    ELSE LET block_type == BlockTypes[i]
             block_specs == BLOCK_MASSES[block_type]
         IN  block_counts[block_type][1] * block_specs.small
                 + block_counts[block_type][2] * block_specs.large
                 + TotalMassFrom(block_counts, i + 1)

calculate_total_mass(block_counts) == I(TotalMassFrom(block_counts, 1))

\* block_counts with large_count light armor blocks (large grid) and no
\* other block
BlockCounts(large_count) ==
    [block_type \in {BlockTypes[i] : i \in 1..Len(BlockTypes)} |->
        IF block_type = "light_armor_block" THEN <<0, large_count>>
        ELSE <<0, 0>>]

\* the widgets as Streamlit first draws them
DefaultWidgets ==
    [mass        |-> I(1000),
     blocks      |-> BlockCounts(0),
     gravity     |-> Rat(981, 100),
     atmo_small  |-> 0, atmo_large  |-> 0,
     ion_small   |-> 0, ion_large   |-> 0,
     hydro_small |-> 0, hydro_large |-> 0,
     preset_name |-> <<>>]

\* a key that is not in st.session_state
Absent == [has |-> FALSE]
Present(v) == [has |-> TRUE, v |-> v]

EmptySessionState ==
    [presets |-> Absent, calculated |-> Absent, current_specs |-> Absent]

\* dict operations on a dict held as its items in insertion order
Keys(pairs) == {pairs[i][1] : i \in 1..Len(pairs)}
KeyList(pairs) == [i \in 1..Len(pairs) |-> pairs[i][1]]
Item(pairs, key) == pairs[CHOOSE i \in 1..Len(pairs) : pairs[i][1] = key][2]
SetItem(pairs, key, value) ==
    IF key \in Keys(pairs)
    THEN [i \in 1..Len(pairs) |->
             IF pairs[i][1] = key THEN <<key, value>> ELSE pairs[i]]
    ELSE Append(pairs, <<key, value>>)

\* utils.py, save_preset mutated: the store is created anew on every save
save_preset_reset(all, s, preset) ==
    [all EXCEPT ![s].presets =
        Present(<<<<preset.name, Preset_save(preset)>>>>)]

\* utils.py, save_preset mutated: one store shared by every session
save_preset_shared(all, s, preset) ==
    [x \in DOMAIN all |->
        [all[x] EXCEPT !.presets =
            Present(SetItem(IF all[x].presets.has THEN all[x].presets.v ELSE <<>>,
                            preset.name, Preset_save(preset)))]]

\* utils.py, save_preset, called in session s: all is st.session_state of
\* every session, and the call writes the caller's only
save_preset(all, s, preset) ==
    LET presets == IF all[s].presets.has THEN all[s].presets.v ELSE <<>>
    IN  [all EXCEPT ![s].presets =
            Present(SetItem(presets, preset.name, Preset_save(preset)))]

\* utils.py, load_preset, called in session s: what it returns and
\* st.session_state as it leaves it
load_preset(all, s, name) ==
    IF ~all[s].presets.has \/ name \notin Keys(all[s].presets.v)
    THEN [value |-> None, session_state |-> all]
    ELSE [value |-> Preset_load(Item(all[s].presets.v, name)),
          session_state |-> all]

\* main.py, lines 225-231: specs, built from the local variables that hold
\* the widgets' values
MainSpecs(w, mass) ==
    GridSpecifications(mass, w.gravity,
                       ThrusterCount(w.atmo_small, w.atmo_large),
                       ThrusterCount(w.ion_small, w.ion_large),
                       ThrusterCount(w.hydro_small, w.hydro_large))

\* main.py, mutated: "Use Calculated Mass" without the rerun, so that the
\* assignment to mass reaches line 225
MassAfterUseCalculatedKept(w) == calculate_total_mass(w.blocks)

\* main.py, lines 192-194 and 147: "Use Calculated Mass" assigns the local
\* mass and reruns; the rerun abandons the run and its locals, and the next
\* run reads mass from the widget again
MassAfterUseCalculated(w) == w.mass

NoMessage == <<>>
EnterPresetName == <<"Please enter a preset name">>
SavedPreset(name) == <<"Saved preset: ">> \o name

\* main.py, "Save Current" mutated: the name is not looked at
save_current_unchecked(all, s, preset_name, specs) ==
    [session_state |-> save_preset(all, s, Preset(preset_name, specs)),
     message       |-> SavedPreset(preset_name),
     saved         |-> <<Preset(preset_name, specs)>>]

\* main.py, lines 242-248, "Save Current" clicked in session s:
\* st.session_state afterwards, the message shown and the presets
\* save_preset was called with
save_current(all, s, preset_name, specs) ==
    IF preset_name # <<>>
    THEN [session_state |-> save_preset(all, s, Preset(preset_name, specs)),
          message       |-> SavedPreset(preset_name),
          saved         |-> <<Preset(preset_name, specs)>>]
    ELSE [session_state |-> all,
          message       |-> EnterPresetName,
          saved         |-> <<>>]

\* main.py, line 250 and 252-255: the names the "Load Preset" box offers
PresetOptions(state) ==
    IF state.presets.has THEN KeyList(state.presets.v) ELSE <<>>

\* main.py, lines 262-313: what a run computes once Calculate was clicked,
\* and the specifications it computes it from
Render(state, specs) ==
    IF state.calculated = Present(TRUE)
    THEN [shown |-> TRUE, specs |-> specs, results |-> results_panel(specs)]
    ELSE [shown |-> FALSE]

AppStart ==
    /\ widgets = [s \in Sessions |-> DefaultWidgets]
    /\ session_state = [s \in Sessions |-> EmptySessionState]
    /\ view = [s \in Sessions |-> [shown |-> FALSE]]
    /\ last = [session |-> "none", kind |-> "start", name |-> <<>>,
               message |-> NoMessage, value |-> None]
    /\ latest = [s \in Sessions |-> <<>>]

Init ==
    /\ input \in Inputs
    /\ op = "none"
    /\ ret = None
    /\ external = None
    /\ AppStart

Call(kind, name, outcome) ==
    /\ op = "none"
    /\ input.kind = kind
    /\ op' = name
    /\ ret' = outcome
    /\ UNCHANGED input
    /\ UNCHANGED appVars

CalculateThrustByType ==
    /\ Call("specs", "calculate_thrust_by_type",
            Ok(calculate_thrust_by_type(input.specs)))
    /\ UNCHANGED external

CalculateTotalThrust ==
    /\ Call("specs", "calculate_total_thrust",
            Ok(calculate_total_thrust(input.specs)))
    /\ UNCHANGED external

CalculateLiftCapacity ==
    /\ Call("specs", "calculate_lift_capacity",
            calculate_lift_capacity(input.specs))
    /\ UNCHANGED external

\* analyze_grid raises before it reaches the completion call
AnalyzeGridNoCall ==
    /\ input.kind = "specs"
    /\ AnalyzePrelude(input.specs).tag = "raise"
    /\ Call("specs", "analyze_grid", AnalyzePrelude(input.specs))
    /\ UNCHANGED external

\* analyze_grid makes the completion call, which comes back with any of
\* its outcomes
AnalyzeGridCall ==
    /\ input.kind = "specs"
    /\ AnalyzePrelude(input.specs).tag = "ok"
    /\ \E completion \in Completions :
        /\ Call("specs", "analyze_grid", analyze_grid(input.specs, completion))
        /\ external' = [prompt  |-> AnalyzePrelude(input.specs).val,
                        outcome |-> completion]

AnalyzeThrustBalance ==
    /\ Call("distribution", "_analyze_thrust_balance",
            Ok(analyze_thrust_balance(input.distribution)))
    /\ UNCHANGED external

CalculateEfficiencyScore ==
    /\ Call("specs", "_calculate_efficiency_score",
            calculate_efficiency_score(input.specs))
    /\ UNCHANGED external

GenerateSuggestedChanges ==
    /\ Call("specs", "_generate_suggested_changes",
            generate_suggested_changes(input.specs))
    /\ UNCHANGED external

SuggestImprovements ==
    /\ Call("specs", "suggest_improvements", suggest_improvements(input.specs))
    /\ UNCHANGED external

\* GridSpecifications.from_dict(specs.to_dict())
ToDictFromDict ==
    /\ Call("specs", "from_dict(to_dict)",
            Ok(GridSpecifications_from_dict(GridSpecifications_to_dict(input.specs))))
    /\ UNCHANGED external

\* Preset.load(preset.save())
PresetSaveLoad ==
    /\ Call("preset", "Preset.load(save)", Ok(Preset_load(Preset_save(input.preset))))
    /\ UNCHANGED external

ResultsPanel ==
    /\ Call("specs", "results_panel", results_panel(input.specs))
    /\ UNCHANGED external

ExportGridToCsv ==
    /\ Call("specs", "export_grid_to_csv", export_grid_to_csv(input.specs))
    /\ UNCHANGED external

CreatePdfReport ==
    /\ Call("specs", "create_pdf_report", create_pdf_report(input.specs))
    /\ UNCHANGED external

CreateMetricsComparison ==
    /\ Call("presets", "create_metrics_comparison",
            create_metrics_comparison(input.presets))
    /\ UNCHANGED external

Next ==
    \/ ResultsPanel
    \/ ExportGridToCsv
    \/ CreatePdfReport
    \/ CreateMetricsComparison
    \/ ToDictFromDict
    \/ PresetSaveLoad
    \/ CalculateThrustByType
    \/ CalculateTotalThrust
    \/ CalculateLiftCapacity
    \/ AnalyzeGridNoCall
    \/ AnalyzeGridCall
    \/ AnalyzeThrustBalance
    \/ CalculateEfficiencyScore
    \/ GenerateSuggestedChanges
    \/ SuggestImprovements

Spec == Init /\ [][Next]_vars

(***************************************************************************)
(* The application's interactions.  Each action is one interaction in      *)
(* session s and the run (or runs) of main it starts.                      *)
(***************************************************************************)
\* the values the model's users type into the widgets
AppMasses == {I(1000), I(50000)}
AppCounts == {0, 1}
AppBlocks == {BlockCounts(0), BlockCounts(1)}
AppNames == {<<>>, <<"a">>, <<"b">>}
SessionNames == {<<>>, <<"a">>}

\* the interaction in session s: the button or call, the preset name it was
\* given, the message shown and the value load_preset returned
Interaction(s, kind, name, message, value) ==
    last' = [session |-> s, kind |-> kind, name |-> name, message |-> message,
             value |-> value]

\* a run of main to its end, with the widgets w and st.session_state all as
\* the buttons' handlers left it
Run(s, w, all) ==
    view' = [view EXCEPT ![s] = Render(all[s], MainSpecs(w, w.mass))]

Edit(s, w) ==
    /\ widgets' = [widgets EXCEPT ![s] = w]
    /\ Run(s, w, session_state)
    /\ Interaction(s, "edit", <<>>, NoMessage, None)
    /\ UNCHANGED <<session_state, latest, callVars>>

EditMass(s) ==
    \E mass \in AppMasses \ {widgets[s].mass} :
        Edit(s, [widgets[s] EXCEPT !.mass = mass])

EditBlocks(s) ==
    \E blocks \in AppBlocks \ {widgets[s].blocks} :
        Edit(s, [widgets[s] EXCEPT !.blocks = blocks])

EditThrusters(s) ==
    \E small \in AppCounts \ {widgets[s].atmo_small} :
        Edit(s, [widgets[s] EXCEPT !.atmo_small = small])

EditPresetName(s, names) ==
    \E name \in names \ {widgets[s].preset_name} :
        Edit(s, [widgets[s] EXCEPT !.preset_name = name])

\* main.py, lines 189-194
UseCalculatedMass(s) ==
    LET w == widgets[s]
    IN  /\ view' = [view EXCEPT ![s] =
                       Render(session_state[s],
                              MainSpecs(w, MassAfterUseCalculated(w)))]
        /\ Interaction(s, "use_calculated_mass", <<>>, NoMessage, None)
        /\ UNCHANGED <<widgets, session_state, latest, callVars>>

\* main.py, lines 233-235
Calculate(s) ==
    LET w     == widgets[s]
        specs == MainSpecs(w, w.mass)
        all   == [session_state EXCEPT ![s].calculated = Present(TRUE),
                                       ![s].current_specs = Present(specs)]
    IN  /\ session_state' = all
        /\ Run(s, w, all)
        /\ Interaction(s, "calculate", <<>>, NoMessage, None)
        /\ UNCHANGED <<widgets, latest, callVars>>

\* main.py, lines 242-248
SaveCurrent(s) ==
    LET w == widgets[s]
        r == save_current(session_state, s, w.preset_name, MainSpecs(w, w.mass))
    IN  /\ session_state' = r.session_state
        /\ latest' = IF r.saved = <<>> THEN latest
                     ELSE [latest EXCEPT ![s] =
                              [n \in DOMAIN latest[s] \union {r.saved[1].name} |->
                                  IF n = r.saved[1].name
                                  THEN r.saved[1].specifications
                                  ELSE latest[s][n]]]
        /\ Run(s, w, r.session_state)
        /\ Interaction(s, "save", w.preset_name, r.message, None)
        /\ UNCHANGED <<widgets, callVars>>

\* main.py, lines 250-260: a name is picked in the box and "Load" clicked;
\* the rerun starts a run with no button clicked
Load(s) ==
    /\ session_state[s].presets.has
    /\ session_state[s].presets.v # <<>>
    /\ \E selected_preset \in Keys(session_state[s].presets.v) :
        LET w      == widgets[s]
            r      == load_preset(session_state, s, selected_preset)
            preset == r.value
            all    == IF preset # None
                      THEN [r.session_state EXCEPT ![s].current_specs =
                               Present(preset.specifications)]
                      ELSE r.session_state
        IN  /\ session_state' = all
            /\ Run(s, w, all)
            /\ Interaction(s, "load", selected_preset, NoMessage, preset)
            /\ UNCHANGED <<widgets, latest, callVars>>

\* load_preset(name) called in session s for any name
LoadPreset(s) ==
    \E name \in AppNames :
        LET r == load_preset(session_state, s, name)
        IN  /\ session_state' = r.session_state
            /\ Interaction(s, "load_preset", name, NoMessage, r.value)
            /\ UNCHANGED <<widgets, view, latest, callVars>>

AppInit ==
    /\ input = [kind |-> "app"]
    /\ op = "none"
    /\ ret = None
    /\ external = None
    /\ AppStart

\* one session: the mass and the block calculator, the preset name, and
\* every button
AppNext ==
    \E s \in {"s1"} :
        \/ EditMass(s)
        \/ EditBlocks(s)
        \/ EditPresetName(s, AppNames)
        \/ UseCalculatedMass(s)
        \/ Calculate(s)
        \/ SaveCurrent(s)
        \/ Load(s)
        \/ LoadPreset(s)

SpecApp == AppInit /\ [][AppNext]_vars

\* every session: the thruster counts, the preset name, and the presets'
\* buttons
SessionsNext ==
    \E s \in Sessions :
        \/ EditThrusters(s)
        \/ EditPresetName(s, SessionNames)
        \/ SaveCurrent(s)
        \/ Load(s)

SpecSessions == AppInit /\ [][SessionsNext]_vars

(***************************************************************************)
(* Shorthands of the properties.                                           *)
(***************************************************************************)
Called(name) == op = name
S == input.specs
TotalThrust == calculate_total_thrust(S)
ResultFields == {"efficiency", "optimization", "use_cases"}

\* the completion call was made and came back with an exception or with a
\* response that holds no text
CompletionFailed ==
    /\ Called("analyze_grid")
    /\ external # None
    /\ \/ external.outcome.tag = "raise"
       \/ Len(external.outcome.val.choices) = 0
       \/ external.outcome.val.choices[1].message.content.type = "NoneType"

\* the description of that failure: str(e)
ErrorDescription ==
    IF external.outcome.tag = "raise" THEN external.outcome.exc
    ELSE IF Len(external.outcome.val.choices) = 0 THEN "list index out of range"
    ELSE "'NoneType' object has no attribute 'split'"

\* the completion call was made and came back with a text
CompletionSucceeded ==
    /\ Called("analyze_grid")
    /\ external # None
    /\ external.outcome.tag = "ok"
    /\ Len(external.outcome.val.choices) > 0
    /\ external.outcome.val.choices[1].message.content.type = "str"

CompletionText == external.outcome.val.choices[1].message.content.chars

(***************************************************************************)
(* C1: analyze_grid never raises: for every configuration with             *)
(* non-negative mass, gravity and counts (gravity = 0 and mass = 0         *)
(* included) and every outcome of the completion call it returns a result  *)
(* with exactly the fields efficiency, optimization and use_cases.         *)
(* Violated: with gravity = 0 calculate_lift_capacity raises on line 25,   *)
(* before the try.                                                         *)
(***************************************************************************)
C1_AnalyzeGridNeverRaises ==
    Called("analyze_grid") =>
        /\ ret.tag = "ok"
        /\ DOMAIN ret.val = ResultFields

(***************************************************************************)
(* C2, as stated: when the completion call fails, all three fields hold    *)
(* the failure placeholder that embeds the error description.  Violated:   *)
(* only efficiency embeds it.                                              *)
(***************************************************************************)
C2_AllFieldsEmbedError ==
    CompletionFailed =>
        /\ ret.tag = "ok"
        /\ \A f \in ResultFields :
              ret.val[f] = <<"Error analyzing efficiency: ", ErrorDescription>>

(***************************************************************************)
(* C2, amended: when the completion call fails, analyze_grid returns the   *)
(* three fields, efficiency holding "Error analyzing efficiency: " followed*)
(* by the error description, optimization and use_cases holding the fixed  *)
(* placeholder "Analysis unavailable".                                     *)
(***************************************************************************)
C2_FailurePlaceholders ==
    CompletionFailed =>
        /\ ret.tag = "ok"
        /\ DOMAIN ret.val = ResultFields
        /\ ret.val.efficiency = <<"Error analyzing efficiency: ", ErrorDescription>>
        /\ ret.val.optimization = <<"Analysis unavailable">>
        /\ ret.val.use_cases = <<"Analysis unavailable">>

C2_Witness ==
    /\ CompletionFailed
    /\ external.outcome = Raise("Connection error.")
    /\ ret = Ok([efficiency   |-> <<"Error analyzing efficiency: ", "Connection error.">>,
                 optimization |-> <<"Analysis unavailable">>,
                 use_cases    |-> <<"Analysis unavailable">>])

(***************************************************************************)
(* C3: when the completion call succeeds, the text is split on blank-line  *)
(* boundaries and segments 1, 2 and 3 go to efficiency, optimization and   *)
(* use_cases; a field whose segment is missing gets its fixed placeholder; *)
(* the segments after the third are ignored.  The segments are those of    *)
(* str.split: joined by blank lines they give the text back, none holds a  *)
(* blank line, and none but the last ends in a newline (so there is always *)
(* a first segment, empty for an empty response).                          *)
(***************************************************************************)
RECURSIVE JoinBlankLines(_)
JoinBlankLines(segs) ==
    IF Len(segs) = 1 THEN segs[1]
    ELSE segs[1] \o <<"\n", "\n">> \o JoinBlankLines(Tail(segs))

HasBlankLine(seg) ==
    \E i \in 1..(Len(seg) - 1) : seg[i] = "\n" /\ seg[i + 1] = "\n"

IsBlankLineSplit(text, segs) ==
    /\ Len(segs) >= 1
    /\ JoinBlankLines(segs) = text
    /\ \A i \in 1..Len(segs) : ~HasBlankLine(segs[i])
    /\ \A i \in 1..(Len(segs) - 1) :
          Len(segs[i]) = 0 \/ segs[i][Len(segs[i])] # "\n"

\* C3: on success the fields are the first three segments of str.split, by
\* position, a missing second or third one replaced by its placeholder
C3_SegmentsByPosition ==
    CompletionSucceeded =>
        LET segs == SplitBlankLines(CompletionText)
            n    == Len(segs)
        IN  /\ IsBlankLineSplit(CompletionText, segs)
            /\ ret.tag = "ok"
            /\ DOMAIN ret.val = ResultFields
            /\ ret.val.efficiency = segs[1]
            /\ ret.val.optimization =
                  IF n >= 2 THEN segs[2] ELSE <<"No optimization suggestions">>
            /\ ret.val.use_cases =
                  IF n >= 3 THEN segs[3] ELSE <<"No use case analysis">>

C3_Witness ==
    /\ CompletionSucceeded
    /\ CompletionText = <<"a", "\n", "\n", "\n", "\n", "\n", "\n">>
    /\ ret = Ok([efficiency |-> <<"a">>, optimization |-> <<>>, use_cases |-> <<>>])

(***************************************************************************)
(* C5: calculate_lift_capacity returns (totalThrust - mass*gravity) /      *)
(* gravity when gravity > 0, and raises when gravity = 0, whatever the     *)
(* mass and the thrusters: it never returns a value then.                  *)
(***************************************************************************)
C5_LiftCapacity ==
    Called("calculate_lift_capacity") =>
        IF S.gravity.n = 0
        THEN ret.tag = "raise"
        ELSE /\ ret.tag = "ok"
             /\ RAdd(RMul(ret.val, S.gravity), RMul(S.mass, S.gravity))
                    = I(TotalThrust)

C5_Witness ==
    /\ Called("calculate_lift_capacity")
    /\ S.gravity = I(0)
    /\ S.mass = I(1000)
    /\ TotalThrust > 0
    /\ ret = Raise("float division by zero")

(***************************************************************************)
(* C6: for all thruster counts, calculate_thrust_by_type gives for each    *)
(* type small * force[small] + large * force[large], with the forces       *)
(* atmospheric 82000/408000, ion 14400/172800, hydrogen 98400/478800, each *)
(* from its own counts alone; calculate_total_thrust is the sum of the     *)
(* three.  Two small atmospheric thrusters alone give 164000 for both.     *)
(***************************************************************************)
C6_Atmospheric == S.atmospheric_thrusters.small * 82000 + S.atmospheric_thrusters.large * 408000
C6_Ion == S.ion_thrusters.small * 14400 + S.ion_thrusters.large * 172800
C6_Hydrogen == S.hydrogen_thrusters.small * 98400 + S.hydrogen_thrusters.large * 478800

\* C6: per-type thrust by the force table, and the total as their sum
C6_ThrustByType ==
    /\ Called("calculate_thrust_by_type") =>
          ret = Ok([atmospheric |-> C6_Atmospheric, ion |-> C6_Ion,
                    hydrogen |-> C6_Hydrogen])
    /\ Called("calculate_total_thrust") =>
          ret = Ok(C6_Atmospheric + C6_Ion + C6_Hydrogen)

C6_Witness ==
    /\ Called("calculate_total_thrust")
    /\ S.atmospheric_thrusters = [small |-> 2, large |-> 0]
    /\ S.ion_thrusters = [small |-> 0, large |-> 0]
    /\ S.hydrogen_thrusters = [small |-> 0, large |-> 0]
    /\ ret = Ok(164000)
(***************************************************************************)
(* C7: the score of _calculate_efficiency_score lies in [0, 100] for every *)
(* configuration with non-negative mass, gravity (0 included) and counts,  *)
(* and is exactly 0 whenever total thrust is 0 or mass is 0.  Violated:    *)
(* with gravity = 0, mass > 0 and thrust > 0 line 119 divides by zero.     *)
(***************************************************************************)
C7_ScoreInRange ==
    Called("_calculate_efficiency_score") =>
        /\ ret.tag = "ok"
        /\ RLe(I(0), ret.val) /\ RLe(ret.val, I(100))
        /\ (TotalThrust = 0 \/ S.mass.n = 0) => ret.val = I(0)

(***************************************************************************)
(* C8: _analyze_thrust_balance gives NoThrusters when the three            *)
(* percentages are 0; otherwise the Heavy verdict of the first type, in    *)
(* the order atmospheric, ion, hydrogen, whose share is strictly above 60; *)
(* otherwise Balanced.  {70,20,10} is AtmosphericHeavy, {0,0,0} is         *)
(* NoThrusters, {34,33,33} is Balanced.                                    *)
(***************************************************************************)
D == input.distribution

C8_Verdict ==
    IF D.atmospheric = I(0) /\ D.ion = I(0) /\ D.hydrogen = I(0)
    THEN "No thrusters configured"
    ELSE IF D.atmospheric.n > 60 * D.atmospheric.d
    THEN "Heavy atmospheric focus - consider diversifying for space operations"
    ELSE IF D.ion.n > 60 * D.ion.d
    THEN "Heavy ion focus - may struggle in atmosphere"
    ELSE IF D.hydrogen.n > 60 * D.hydrogen.d
    THEN "Heavy hydrogen focus - check fuel efficiency"
    ELSE "Balanced thrust distribution"

\* C8: the verdict is NoThrusters, the first share strictly above 60, or
\* Balanced
C8_ThrustBalance ==
    Called("_analyze_thrust_balance") =>
        /\ ret = Ok(<<C8_Verdict>>)
        /\ D = [atmospheric |-> I(70), ion |-> I(20), hydrogen |-> I(10)]
              => ret.val = AtmosphericHeavy
        /\ D = [atmospheric |-> I(0), ion |-> I(0), hydrogen |-> I(0)]
              => ret.val = NoThrusters
        /\ D = [atmospheric |-> I(34), ion |-> I(33), hydrogen |-> I(33)]
              => ret.val = Balanced
        /\ (\A k \in DOMAIN D : RLe(D[k], I(60))) /\ (\E k \in DOMAIN D : D[k].n # 0)
              => ret.val = Balanced

\* a share of exactly 60 is passed over, and of two shares above 60 the
\* earlier type wins
C8_Witness ==
    /\ Called("_analyze_thrust_balance")
    /\ D = [atmospheric |-> I(60), ion |-> I(70), hydrogen |-> I(61)]
    /\ ret = Ok(IonHeavy)

(***************************************************************************)
(* C9: the suggested changes are built in a fixed order.  With total       *)
(* thrust 0 the result is the single element "Add thrusters to begin       *)
(* analysis", whatever the mass and the gravity.  Otherwise at most one    *)
(* twr message comes first (twr = 0: insufficient data; twr < 1.5: add     *)
(* thrust; twr > 4: reduce thrust; else none), then the atmospheric        *)
(* advisory iff atmospheric thrust < mass*gravity, then the space advisory *)
(* iff ion + hydrogen thrust < mass*gravity, each independently.  twr is   *)
(* totalThrust / (mass*gravity), and 0 when mass is 0; where it is         *)
(* undefined (thrust > 0, mass > 0, gravity = 0) the function raises.      *)
(***************************************************************************)
\* mass * gravity = C9_HoverN / C9_HoverD
C9_HoverN == S.mass.n * S.gravity.n
C9_HoverD == S.mass.d * S.gravity.d

C9_TwrMessage ==
    IF S.mass.n = 0
    THEN <<<<"Add mass and thrusters to calculate thrust-to-weight ratio">>>>
    ELSE IF 2 * TotalThrust * C9_HoverD < 3 * C9_HoverN
    THEN <<<<"Add more thrusters to improve lift capacity">>>>
    ELSE IF TotalThrust * C9_HoverD > 4 * C9_HoverN
    THEN <<<<"Consider reducing thrust for better efficiency">>>>
    ELSE <<>>

C9_AtmosphericAdvisory ==
    IF calculate_thrust_by_type(S).atmospheric * C9_HoverD < C9_HoverN
    THEN <<<<"Increase atmospheric thrusters for better planet performance">>>>
    ELSE <<>>

C9_SpaceAdvisory ==
    IF (calculate_thrust_by_type(S).ion + calculate_thrust_by_type(S).hydrogen)
            * C9_HoverD < C9_HoverN
    THEN <<<<"Increase ion/hydrogen thrusters for space operations">>>>
    ELSE <<>>

\* C9: the single element for zero thrust; otherwise the twr message, the
\* atmospheric advisory and the space advisory, in that order
C9_SuggestedChanges ==
    Called("_generate_suggested_changes") =>
        IF TotalThrust = 0
        THEN ret = Ok(<<<<"Add thrusters to begin analysis">>>>)
        ELSE IF S.mass.n > 0 /\ S.gravity.n = 0
        THEN ret.tag = "raise"
        ELSE ret = Ok(C9_TwrMessage \o C9_AtmosphericAdvisory \o C9_SpaceAdvisory)

\* a twr message and both advisories, in that order
C9_Witness ==
    /\ Called("_generate_suggested_changes")
    /\ S.mass = I(50000) /\ S.gravity = Rat(981, 100)
    /\ TotalThrust = 14400
    /\ ret = Ok(<<AddMoreThrusters, IncreaseAtmospheric, IncreaseSpace>>)
(***************************************************************************)
(* C10: serialization round-trips.  GridSpecifications.from_dict(          *)
(* s.to_dict()) equals s field by field (mass, gravity, the small and      *)
(* large counts of the three types), and Preset.load(p.save()) has the     *)
(* name of p and specifications equal to those of p.                       *)
(***************************************************************************)
SameSpecifications(a, b) ==
    /\ a.mass = b.mass
    /\ a.gravity = b.gravity
    /\ \A f \in {"atmospheric_thrusters", "ion_thrusters", "hydrogen_thrusters"} :
          a[f].small = b[f].small /\ a[f].large = b[f].large

\* C10: from_dict(to_dict(s)) = s, and load(save(p)) = p, field by field
C10_RoundTrip ==
    /\ Called("from_dict(to_dict)") =>
          ret.tag = "ok" /\ SameSpecifications(ret.val, input.specs)
    /\ Called("Preset.load(save)") =>
          /\ ret.tag = "ok"
          /\ ret.val.name = input.preset.name
          /\ SameSpecifications(ret.val.specifications, input.preset.specifications)

\* a name that needs escaping, a gravity with two decimals
C10_Witness ==
    /\ Called("Preset.load(save)")
    /\ input.preset.name = <<"\"", "\\">>
    /\ input.preset.specifications.gravity = Rat(162, 100)
    /\ input.preset.specifications.mass = I(1000)
    /\ input.preset.specifications.hydrogen_thrusters = [small |-> 1, large |-> 1]
    /\ ret.val = input.preset
(***************************************************************************)
(* C4: every place that computes the thrust-to-weight ratio (the AI        *)
(* prompt, the suggested changes, the Results panel, the CSV export, the   *)
(* PDF report, the metrics comparison chart) yields 0 when mass is 0, for  *)
(* any gravity > 0 and any thruster counts, and raises nothing.  Violated: *)
(* only analyze_grid and _generate_suggested_changes guard mass > 0; the   *)
(* other four divide by mass*gravity = 0.                                  *)
(***************************************************************************)
ZeroMass(specs) == specs.mass.n = 0 /\ specs.gravity.n > 0

C4_ZeroText == <<"0", ".", "0", "0">>

\* C4: with mass = 0 and gravity > 0 every place returns, showing twr = 0
C4_TwrZeroAtZeroMass ==
    /\ (Called("analyze_grid") /\ ZeroMass(S)) =>
          ret.tag = "ok" /\ external # None /\ external.prompt.twr = C4_ZeroText
    /\ (Called("_generate_suggested_changes") /\ ZeroMass(S)) =>
          /\ ret.tag = "ok"
          /\ TotalThrust > 0 =>
                ret.val = <<<<"Add mass and thrusters to calculate thrust-to-weight ratio">>>>
    /\ (Called("results_panel") /\ ZeroMass(S)) =>
          ret.tag = "ok" /\ ret.val.twr = C4_ZeroText
    /\ (Called("export_grid_to_csv") /\ ZeroMass(S)) =>
          /\ ret.tag = "ok"
          /\ ret.val[Len(ret.val)] = <<<<"Thrust-to-Weight Ratio">>, C4_ZeroText>>
    /\ (Called("create_pdf_report") /\ ZeroMass(S)) =>
          /\ ret.tag = "ok"
          /\ ret.val.performance_data[Len(ret.val.performance_data)]
                = <<<<"Thrust-to-Weight Ratio">>, C4_ZeroText>>
    /\ (Called("create_metrics_comparison")
            /\ \A i \in 1..Len(input.presets) :
                  ZeroMass(Preset_load(input.presets[i][2]).specifications)) =>
          /\ ret.tag = "ok"
          /\ \A i \in 1..Len(ret.val) : ret.val[i].r[3] = I(0)

(***************************************************************************)
(* C11: after any sequence of saves in a session the store holds exactly   *)
(* one entry per distinct name saved; a save under a name already there    *)
(* overwrites that entry and leaves the others as they were; and           *)
(* load_preset(name) returns the preset most recently saved under name.    *)
(***************************************************************************)
StoreItems(s) ==
    IF session_state[s].presets.has THEN session_state[s].presets.v ELSE <<>>

\* C11: the store's keys are the names saved, each once, and every name
\* loads the specifications of its most recent save
C11_StoreHoldsLatestSaves ==
    \A s \in Sessions :
        /\ Keys(StoreItems(s)) = DOMAIN latest[s]
        /\ \A i, j \in 1..Len(StoreItems(s)) :
              StoreItems(s)[i][1] = StoreItems(s)[j][1] => i = j
        /\ \A name \in DOMAIN latest[s] :
              LET preset == load_preset(session_state, s, name).value
              IN  /\ preset # None
                  /\ preset.name = name
                  /\ SameSpecifications(preset.specifications, latest[s][name])

\* "a" was saved, then "b", then "a" again with another mass
C11_Witness ==
    /\ last.kind = "save"
    /\ last.message = SavedPreset(<<"a">>)
    /\ PresetOptions(session_state["s1"]) = <<<<"a">>, <<"b">>>>
    /\ latest["s1"][<<"a">>].mass = I(50000)
    /\ latest["s1"][<<"b">>].mass = I(1000)
    /\ load_preset(session_state, "s1", <<"a">>).value.specifications.mass = I(50000)
    /\ load_preset(session_state, "s1", <<"b">>).value.specifications.mass = I(1000)

(***************************************************************************)
(* C12: the preset stores of different sessions are independent: however   *)
(* the sessions' saves and loads interleave, an interaction in one session *)
(* adds, overwrites or removes nothing that load_preset or the preset list *)
(* of another session shows.                                               *)
(***************************************************************************)
\* C12: a step leaves the preset list and every load_preset result of each
\* session other than the acting one as they were
C12_SessionsIndependent ==
    [][\A s \in Sessions :
          last'.session # s =>
              /\ PresetOptions(session_state'[s]) = PresetOptions(session_state[s])
              /\ \A name \in AppNames :
                    load_preset(session_state', s, name).value
                        = load_preset(session_state, s, name).value]_vars

\* s1 saved "a" and loaded it; then s2 saved its own "a" with another
\* thruster count, and s1 still loads what it saved
C12_Witness ==
    /\ last.session = "s2"
    /\ last.kind = "save"
    /\ last.message = SavedPreset(<<"a">>)
    /\ session_state["s1"].current_specs.has
    /\ load_preset(session_state, "s1", <<"a">>).value
            .specifications.atmospheric_thrusters.small = 0
    /\ load_preset(session_state, "s2", <<"a">>).value
            .specifications.atmospheric_thrusters.small = 1

(***************************************************************************)
(* C13: export_grid_to_csv writes its rows in a fixed sequence: the title, *)
(* a blank row, "Basic Specifications", mass, gravity, a blank row,        *)
(* "Thruster Configuration", the column header, the atmospheric, ion and   *)
(* hydrogen rows, a blank row, "Performance Analysis", total thrust,       *)
(* atmospheric thrust, ion thrust, hydrogen thrust, required hover thrust, *)
(* lift capacity, thrust-to-weight ratio; the order does not depend on the *)
(* values.                                                                 *)
(***************************************************************************)
\* the first cell of every row, <<>> for a blank row
C13_Labels ==
    <<<<"Space Engineers Grid Specifications">>, <<>>,
      <<"Basic Specifications">>, <<"Mass (kg)">>, <<"Gravity (m/s2)">>, <<>>,
      <<"Thruster Configuration">>, <<"Type">>, <<"Atmospheric">>, <<"Ion">>,
      <<"Hydrogen">>, <<>>,
      <<"Performance Analysis">>, <<"Total Thrust (N)">>,
      <<"Atmospheric Thrust (N)">>, <<"Ion Thrust (N)">>,
      <<"Hydrogen Thrust (N)">>, <<"Required Hover Thrust (N)">>,
      <<"Lift Capacity (kg)">>, <<"Thrust-to-Weight Ratio">>>>

C13_FirstCell(row) == IF row = <<>> THEN <<>> ELSE row[1]

\* C13: the file export_grid_to_csv returns has these rows in this order,
\* whatever the configuration, and it returns one whenever mass and gravity
\* are positive
C13_RowOrder ==
    Called("export_grid_to_csv") =>
        /\ (S.mass.n > 0 /\ S.gravity.n > 0) => ret.tag = "ok"
        /\ ret.tag = "ok" =>
              /\ Len(ret.val) = Len(C13_Labels)
              /\ \A i \in 1..Len(C13_Labels) :
                    C13_FirstCell(ret.val[i]) = C13_Labels[i]

\* two configurations' worth of difference: a heavy grid on the Moon with a
\* large ion and a small hydrogen thruster
C13_Witness ==
    /\ Called("export_grid_to_csv")
    /\ S.mass = I(50000)
    /\ S.gravity = Rat(162, 100)
    /\ S.ion_thrusters.large = 1
    /\ S.hydrogen_thrusters.small = 1
    /\ ret.tag = "ok"
    /\ ret.val[10] = <<<<"Ion">>, <<"0">>, <<"1">>>>
    /\ ret.val[14][1] = <<"Total Thrust (N)">>

(***************************************************************************)
(* C14: every numeric value export_grid_to_csv writes, in "Basic           *)
(* Specifications" (mass, gravity) as in "Performance Analysis", is in     *)
(* format_number's form: two decimals, thousands separated by commas.      *)
(* Violated: mass and gravity are written as the floats they are.          *)
(***************************************************************************)
C14_Digits == {"0", "1", "2", "3", "4", "5", "6", "7", "8", "9"}

\* a CSV field without the quotes the writer puts around a field with a comma
C14_Unquoted(field) ==
    IF Len(field) >= 2 /\ field[1] = "\"" /\ field[Len(field)] = "\""
    THEN SubSeq(field, 2, Len(field) - 1)
    ELSE field

\* [-]d{1,3}(,ddd)*.dd
C14_TwoDecimalGrouped(text) ==
    LET body == IF Len(text) > 0 /\ text[1] = "-" THEN Tail(text) ELSE text
        n    == Len(body)
    IN  /\ n >= 4
        /\ body[n - 2] = "."
        /\ body[n - 1] \in C14_Digits
        /\ body[n] \in C14_Digits
        /\ body[1] \in C14_Digits
        /\ \A i \in 1..(n - 3) :
              IF (n - 3 - i + 1) % 4 = 0 THEN body[i] = ","
              ELSE body[i] \in C14_Digits

\* C14: the value cell of the mass row, of the gravity row and of the seven
\* "Performance Analysis" rows is in the two-decimal, comma-grouped form,
\* and the mass and gravity cells are what format_number makes of them
C14_AllValuesFormatted ==
    (Called("export_grid_to_csv") /\ ret.tag = "ok") =>
        /\ \A i \in {4, 5} \union 14..20 :
              C14_TwoDecimalGrouped(C14_Unquoted(ret.val[i][2]))
        /\ ret.val[4][2] = CsvField(format_number(S.mass))
        /\ ret.val[5][2] = CsvField(format_number(S.gravity))

(***************************************************************************)
(* C15: for mass > 0, gravity > 0 and total thrust > 0 the efficiency      *)
(* score is clamp(base - penalty, 0, 100), where twr = total / (mass *     *)
(* gravity), base = clamp(20 * twr, 0, 100) (100 for every twr >= 5) and   *)
(* penalty = 20 * (sum over the three types of |thrust - total/3|) / total *)
(* (0 exactly when the three per-type thrusts are equal).                  *)
(***************************************************************************)
C15_Clamp(x) ==
    IF RLt(x, I(0)) THEN I(0) ELSE IF RLt(I(100), x) THEN I(100) ELSE x

C15_Twr == RDiv(I(TotalThrust), RMul(S.mass, S.gravity)).val

C15_Base == IF RLe(I(5), C15_Twr) THEN I(100) ELSE RMul(I(20), C15_Twr)

C15_Abs(k) == IF k < 0 THEN 0 - k ELSE k

\* 20 * sum |t - T/3| / T  =  20 * sum |3t - T| / 3T
C15_Penalty ==
    LET thrusts == calculate_thrust_by_type(S)
    IN  RMul(I(20),
             Rat(C15_Abs(3 * thrusts.atmospheric - TotalThrust)
                     + C15_Abs(3 * thrusts.ion - TotalThrust)
                     + C15_Abs(3 * thrusts.hydrogen - TotalThrust),
                 3 * TotalThrust))

C16_NotStored(s, name) ==
    ~session_state[s].presets.has \/ name \notin Keys(session_state[s].presets.v)

\* C16: a Save Current with the name box empty shows the error and leaves
\* st.session_state as it was; a load_preset of a name the store does not
\* hold returns None and leaves st.session_state as it was
C16_RejectedLeaveStore ==
    [][/\ (last'.kind = "save" /\ widgets[last'.session].preset_name = <<>>) =>
              /\ last'.message = EnterPresetName
              /\ session_state' = session_state
       /\ (last'.kind = "load_preset" /\ C16_NotStored(last'.session, last'.name)) =>
              /\ last'.value = None
              /\ session_state' = session_state]_vars

\* Save Current with the name box emptied, after "a" was saved
C16_Witness ==
    /\ last.kind = "save"
    /\ last.name = <<>>
    /\ last.message = EnterPresetName
    /\ PresetOptions(session_state["s1"]) = <<<<"a">>>>

(***************************************************************************)
(* C17: the specifications the Results panel, the exports and the AI       *)
(* analysis of an interaction are computed from are always the values the  *)
(* input widgets hold; Load and Use Calculated Mass change neither the     *)
(* widgets nor the specifications the following computation uses (Load     *)
(* writes session_state.current_specs only, which no computation reads).   *)
(***************************************************************************)
C17_WidgetSpecs(w) ==
    [mass |-> w.mass, gravity |-> w.gravity,
     atmospheric_thrusters |-> [small |-> w.atmo_small, large |-> w.atmo_large],
     ion_thrusters |-> [small |-> w.ion_small, large |-> w.ion_large],
     hydrogen_thrusters |-> [small |-> w.hydro_small, large |-> w.hydro_large]]

====
